---------------------------- MODULE Spec2Model ----------------------------
(***************************************************************************)
(* EthosLens governance decision pipeline.                                 *)
(*                                                                         *)
(*   - the rule-based violation detector and status resolution of         *)
(*     EthosLensGovernance (server.js),                                    *)
(*   - the status resolution of GovernanceService (governanceService.ts   *)
(*     and governanceService.js),                                          *)
(*   - the dual-backend orchestration of GovernanceService with its       *)
(*     availability probe and backend switch.                             *)
(*                                                                         *)
(* Severities are kept in tenths (9.5 is 95) so that they stay integers.   *)
(***************************************************************************)
EXTENDS Integers, Sequences, FiniteSets, TLC

VARIABLES
    dPrompt,      \* detector run: the prompt, a sequence of text chunks
    dResponse,    \* detector run: the response, a sequence of text chunks
    dResult,      \* detector run: the Interaction produced for (dPrompt, dResponse)
    dPrev,        \* detector run: the Interaction produced before a phrase was added
    dAdded,       \* detector run: how the phrase was added ("none" before)
    dCalls,       \* detector calls: the calls of detectViolations made so far
    rViolations,  \* resolver run: a violation list (severities)
    rOther,       \* resolver run: a second violation list
    rOut,         \* resolver run: what each resolver made of the two lists
    impl,            \* which GovernanceService runs: "ts" (browser) or "js" (Node server)
    isEnabled,       \* InkeepAgentsService.isEnabled (VITE_USE_INKEEP_AGENTS at start)
    useInkeepAgents, \* GovernanceService.useInkeepAgents  (preferRemote)
    inkeepAvailable, \* GovernanceService.inkeepAvailable  (remoteAvailable)
    probes,          \* availability probes in flight
    nProbes,         \* probes started so far
    nSwitches,       \* switchAgentType calls started so far
    lastSwitch,      \* the answer of the last completed /api/governance/switch
    call,            \* the processInteraction call in flight or just finished
    nCalls,          \* processInteraction calls started so far
    useSupabase,     \* GovernanceServiceSupabase.useSupabase
    store,           \* the rows stored for the latest interaction, in order
    interactions,    \* LiveMonitor: the interactions on display, by id
    fb,              \* the processFeedback call in flight or just finished
    probe            \* one run of InkeepAgentsService.isAvailable

detVars == <<dPrompt, dResponse, dResult, dPrev, dAdded, dCalls>>
resVars == <<rViolations, rOther, rOut>>
cfgVars == <<impl, isEnabled, useInkeepAgents, inkeepAvailable>>
opVars == <<probes, nProbes, nSwitches, lastSwitch>>
callVars == <<call, nCalls>>
govVars == <<cfgVars, opVars, callVars>>
sbVars == <<useSupabase, store>>
fbVars == <<interactions, fb>>
extVars == <<sbVars, fbVars, probe>>

-----------------------------------------------------------------------------
(* Text.  A text is a sequence of chunks; a chunk stands for the characters *)
(* written beside it.  The chunks are chosen so that a chunk holds no       *)
(* trigger phrase other than itself and that the only trigger phrase        *)
(* several chunks can spell is "hack into" ("hack", " ", "into"), so        *)
(* `includes` is decided on chunks, while the word boundaries of the PII    *)
(* patterns are decided from the neighbouring chunks.                       *)

Sp == "sp"            \* " "
Chunks ==
    { "sp",                         \* " "
      "weather",                    \* "weather"            no trigger
      "hack into",                  \* hackingPatterns[1]
      "hack",                       \* "hack"               no trigger by itself
      "into",                       \* "into"               no trigger by itself
      "phishing",                   \* hackingPatterns[10]
      "internal database",          \* dataTheftPatterns[2]
      "hurt someone",               \* harmfulPatterns[6]
      "HOW TO KILL",                \* upper case of harmfulPatterns[10]
      "all men",                    \* bias trigger
      "vaccines cause autism",      \* misinformation trigger
      "D16",                        \* "4111111111111111"   sixteen digits
      "D1",                         \* "7"                  one digit
      "SSN",                        \* "123-45-6789"
      "EMAIL" }                     \* "a@b.co"

\* String.prototype.toLowerCase on one chunk.
LowerChunk(c) == IF c = "HOW TO KILL" THEN "how to kill" ELSE c

toLowerCase(text) == [i \in 1..Len(text) |-> LowerChunk(text[i])]

\* The first and the last character of a chunk are word characters (\w).
EdgeIsWord(c) == c # "sp"

\* How the run of word characters at the start of a chunk goes on:
\*   "letters"  the whole chunk is letters, the run goes on into the next chunk
\*   "ends"     letters, then a non-word character inside the chunk
\*   "digit"    the chunk starts with a digit
\*   "nonword"  the chunk starts with a non-word character
LeadRun(c) ==
    CASE c = "sp" -> "nonword"
      [] c \in {"D16", "D1", "SSN"} -> "digit"
      [] c \in {"weather", "phishing", "hack", "into"} -> "letters"
      [] OTHER -> "ends"

\* text.includes(pattern): a chunk is the pattern, or the pattern is
\* "hack into" and the chunks "hack", " ", "into" follow each other.
Includes(text, pattern) ==
    \/ \E i \in 1..Len(text) : text[i] = pattern
    \/ /\ pattern = "hack into"
       /\ \E i \in 1..(Len(text) - 2) :
              text[i] = "hack" /\ text[i+1] = "sp" /\ text[i+2] = "into"

\* /\b\d{16}\b/ : a run of exactly sixteen digits between non-word characters.
MatchCreditCard(text) ==
    \E i \in 1..Len(text) :
        /\ text[i] = "D16"
        /\ (i = 1 \/ ~EdgeIsWord(text[i-1]))
        /\ (i = Len(text) \/ ~EdgeIsWord(text[i+1]))

\* /\b\d{3}-\d{2}-\d{4}\b/
MatchSSN(text) ==
    \E i \in 1..Len(text) :
        /\ text[i] = "SSN"
        /\ (i = 1 \/ ~EdgeIsWord(text[i-1]))
        /\ (i = Len(text) \/ ~EdgeIsWord(text[i+1]))

\* The top-level domain [A-Z|a-z]{2,} takes the letters that follow and must
\* end at a word boundary: the run after the address must not reach a digit.
RECURSIVE TldEndsAtBoundary(_, _)
TldEndsAtBoundary(text, i) ==
    IF i > Len(text) THEN TRUE
    ELSE CASE LeadRun(text[i]) = "letters" -> TldEndsAtBoundary(text, i + 1)
           [] LeadRun(text[i]) = "digit" -> FALSE
           [] OTHER -> TRUE

\* /\b[A-Za-z0-9._%+-]+@[A-Za-z0-9.-]+\.[A-Z|a-z]{2,}\b/ : the local part
\* takes any word characters before it, so only the right side can fail.
MatchEmail(text) ==
    \E i \in 1..Len(text) : text[i] = "EMAIL" /\ TldEndsAtBoundary(text, i + 1)

-----------------------------------------------------------------------------
(* EthosLensGovernance.detectViolations (server.js)                         *)

hackingPatterns ==
    << "hack into", "hack someone", "break into", "unauthorized access",
       "crack password", "bypass security", "exploit vulnerability",
       "ddos attack", "sql injection", "phishing", "malware",
       "how to hack", "hacking tutorial", "illegal access",
       "steal data", "breach security", "network intrusion" >>

dataTheftPatterns ==
    << "share the internal", "internal database", "salary database",
       "confidential data", "proprietary information", "company secrets",
       "employee records", "customer database", "financial records",
       "trade secrets", "classified information", "private documents",
       "leak the data", "access internal", "company database",
       "sensitive information", "restricted data", "internal files" >>

harmfulPatterns ==
    << "how to make bomb", "create explosive", "make poison",
       "suicide methods", "self harm", "hurt someone",
       "kill someone", "murder", "violence against",
       "how to kill", "kill my", "kill him", "kill her",
       "murder my", "murder him", "murder her",
       "harm my", "hurt my", "attack my",
       "assassinate", "eliminate someone" >>

biasPatterns == << "all women", "all men", "people of color are", "white people are" >>

misinformationPatterns ==
    << "vaccines cause autism", "covid is fake", "climate change is a hoax" >>

SevIllegalActivity == 95
SevDataTheft == 90
SevPii == 85
SevHarmfulContent == 90
SevBias == 65
SevMisinformation == 70

\* patterns.find(pattern => text.includes(pattern)): the index of the first
\* pattern the text includes, 0 for undefined.
Find(patterns, text) ==
    LET hits == {k \in 1..Len(patterns) : Includes(text, patterns[k])}
    IN IF hits = {} THEN 0 ELSE CHOOSE k \in hits : \A j \in hits : k <= j

\* A violation whose severity is cut to a whole number (9.5 becomes 9).
ViolationWholeSeverity(type, severity) ==
    [type |-> type, severity |-> (severity \div 10) * 10]

Violation(type, severity) == [type |-> type, severity |-> severity]

\* if (found) violations.push({...})
PushIf(found, violations, v) == IF found THEN Append(violations, v) ELSE violations

\* A detector that pushes one violation for every pattern that matches.
PushPerPattern(patterns, text, violations, v) ==
    LET hits == {k \in 1..Len(patterns) : Includes(text, patterns[k])}
        RECURSIVE Rep(_, _)
        Rep(n, vs) == IF n = 0 THEN vs ELSE Rep(n - 1, Append(vs, v))
    IN Rep(Cardinality(hits), violations)

PushFirstMatch(patterns, text, violations, v) ==
    PushIf(Find(patterns, text) # 0, violations, v)

\* What the array of the call before holds when a call starts.
KeptViolations == IF dCalls = <<>> THEN <<>> ELSE dCalls[Len(dCalls)].violations

\* A detector that keeps one array for all its calls.
keepViolations(kept) == kept

\* const violations = []: every call starts with an array of its own.
newViolations(kept) == <<>>

detectViolations(prompt, response) ==
    LET text == toLowerCase(prompt \o <<Sp>> \o response)
        v1 == PushFirstMatch(hackingPatterns, text, newViolations(KeptViolations),
                             Violation("illegal_activity", SevIllegalActivity))
        v2 == PushFirstMatch(dataTheftPatterns, text, v1,
                             Violation("data_theft", SevDataTheft))
        v3 == PushIf(MatchSSN(text) \/ MatchCreditCard(text) \/ MatchEmail(text),
                     v2, Violation("pii", SevPii))
        v4 == PushFirstMatch(harmfulPatterns, text, v3,
                             Violation("harmful_content", SevHarmfulContent))
        v5 == PushIf(\E k \in 1..Len(biasPatterns) : Includes(text, biasPatterns[k]),
                     v4, Violation("bias", SevBias))
        v6 == PushIf(\E k \in 1..Len(misinformationPatterns) :
                         Includes(text, misinformationPatterns[k]),
                     v5, Violation("misinformation", SevMisinformation))
    IN v6


-----------------------------------------------------------------------------
(* Status resolution.  Each resolver yields <<status, severity>>.           *)

Severities(violations) == [i \in 1..Len(violations) |-> violations[i].severity]

\* Math.max(...severities) of a non-empty list
MathMax(sevs) == CHOOSE m \in {sevs[i] : i \in 1..Len(sevs)} :
                     \A i \in 1..Len(sevs) : sevs[i] <= m

\* violations.some(v => v.severity >= t); also filter(...).length > 0
SomeAtLeast(violations, t) == \E i \in 1..Len(violations) : violations[i].severity >= t

\* The server's thresholds applied to the last violation instead of the
\* maximum.
resolveServerLastOnly(violations) ==
    IF Len(violations) > 0
    THEN LET s == violations[Len(violations)].severity
         IN IF s >= 80 THEN <<"blocked", "critical">>
            ELSE IF s >= 60 THEN <<"pending", "high">>
            ELSE <<"approved", "medium">>
    ELSE <<"approved", "low">>

\* EthosLensGovernance.processInteraction (server.js), "Determine status":
\* the interaction starts as approved/low.
ServerCriticalMin == 80
ServerHighMin == 60
resolveServer(violations) ==
    IF Len(violations) > 0
    THEN LET maxSeverity == MathMax(Severities(violations))
         IN IF maxSeverity >= ServerCriticalMin THEN <<"blocked", "critical">>
            ELSE IF maxSeverity >= ServerHighMin THEN <<"pending", "high">>
            ELSE <<"approved", "medium">>
    ELSE <<"approved", "low">>

\* A resolver that looks at the last violation only.
resolveLastOnly(violations) ==
    IF Len(violations) = 0 THEN <<"approved", "low">>
    ELSE LET s == violations[Len(violations)].severity
         IN IF s >= 90 THEN <<"blocked", "critical">>
            ELSE IF s >= 70 THEN <<"pending", "high">>
            ELSE IF s >= 50 THEN <<"pending", "medium">>
            ELSE <<"approved", "low">>

\* GovernanceService.determineFinalStatus (governanceService.ts)
TsCriticalMin == 90
TsHighMin == 70
TsMediumMin == 50
determineFinalStatus(violations) ==
    IF Len(violations) = 0 THEN <<"approved", "low">>
    ELSE LET maxSeverity == MathMax(Severities(violations))
         IN IF SomeAtLeast(violations, TsCriticalMin) THEN <<"blocked", "critical">>
            ELSE IF SomeAtLeast(violations, TsHighMin) THEN <<"pending", "high">>
            ELSE IF maxSeverity >= TsMediumMin THEN <<"pending", "medium">>
            ELSE <<"approved", "low">>

\* GovernanceService.processInteraction (governanceService.js), "Finalize status"
JsCriticalMin == 90
JsHighMin == 70
finalizeStatusJs(violations) ==
    IF Len(violations) = 0 THEN <<"approved", "low">>
    ELSE IF SomeAtLeast(violations, JsCriticalMin) THEN <<"blocked", "critical">>
    ELSE IF SomeAtLeast(violations, JsHighMin) THEN <<"pending", "high">>
    ELSE <<"pending", "medium">>

\* EthosLensGovernance.processInteraction (server.js): detect, then resolve.
\* The agent actions record the violation count and the resolved status.
serverProcessInteraction(prompt, response) ==
    LET violations == detectViolations(prompt, response)
        st == resolveServer(violations)
    IN [ done |-> TRUE,
         input |-> prompt, output |-> response,
         violations |-> violations,
         status |-> st[1], severity |-> st[2],
         agentActions |->
            << [agent |-> "PolicyEnforcerAgent", action |-> "analyze",
                result |-> "Found violations", about |-> ToString(Len(violations))],
               [agent |-> "VerifierAgent", action |-> "verify",
                result |-> "Status", about |-> st[1]] >> ]

-----------------------------------------------------------------------------
(* Bounds                                                                   *)

MaxPromptLen == 2       \* chunks in a prompt drawn at the start
MaxViolations == 2      \* violations in a list handed to the resolvers

RECURSIVE SeqsUpTo(_, _)
SeqsUpTo(S, n) ==
    IF n = 0 THEN {<<>>}
    ELSE LET shorter == SeqsUpTo(S, n - 1)
         IN shorter \cup {Append(s, x) : s \in {t \in shorter : Len(t) = n - 1}, x \in S}

NoInteraction == [done |-> FALSE]

\* Idle values of the variables a specification does not use.
DetIdle ==
    /\ dPrompt = <<>> /\ dResponse = <<>>
    /\ dResult = NoInteraction /\ dPrev = NoInteraction /\ dAdded = "none"
    /\ dCalls = <<>>
ResIdle == rViolations = <<>> /\ rOther = <<>> /\ rOut = NoInteraction
GovIdle ==
    /\ impl = "ts" /\ isEnabled = FALSE
    /\ useInkeepAgents = FALSE /\ inkeepAvailable = FALSE
    /\ probes = {} /\ nProbes = 0 /\ nSwitches = 0 /\ lastSwitch = [done |-> FALSE]
    /\ call = [pc |-> "idle"] /\ nCalls = 0
SbIdle == useSupabase = FALSE /\ store = <<>>
FbIdle == interactions = <<>> /\ fb = [pc |-> "idle"]
ProbeIdle == probe = NoInteraction
ExtIdle == SbIdle /\ FbIdle /\ ProbeIdle

-----------------------------------------------------------------------------
(* SpecDetect: the detector and EthosLensGovernance.processInteraction on   *)
(* every bounded (prompt, response), and on the prompt with a trigger       *)
(* phrase added.                                                            *)

Responses == { <<>>, <<"weather">>, <<"into">>, <<"D16">>, <<"D1", "weather">> }

\* The trigger phrases that can be added: one from each phrase list.
TriggerPhrases ==
    { "phishing", "internal database", "HOW TO KILL", "all men",
      "vaccines cause autism" }

\* The ways a phrase is added to an input: written straight before or after
\* the prompt, or set apart from it by a space; or after the response, set
\* apart by a space.
AddModes == {"prepend", "append", "prepend_spaced", "append_spaced", "after_response_spaced"}

AddToPrompt(prompt, phrase, mode) ==
    CASE mode = "append" -> prompt \o <<phrase>>
      [] mode = "prepend" -> <<phrase>> \o prompt
      [] mode = "append_spaced" -> prompt \o <<Sp, phrase>>
      [] mode = "prepend_spaced" -> <<phrase, Sp>> \o prompt
      [] OTHER -> prompt

AddToResponse(response, phrase, mode) ==
    IF mode = "after_response_spaced" THEN response \o <<Sp, phrase>> ELSE response

\* EthosLensGovernance.processInteraction on (prompt, response), and beside
\* it what the resolvers of GovernanceService make of the same violations.
detRun(prompt, response) ==
    LET interaction == serverProcessInteraction(prompt, response)
    IN interaction @@ [ ts |-> determineFinalStatus(interaction.violations),
                        js |-> finalizeStatusJs(interaction.violations) ]

DetInit ==
    /\ dPrompt \in SeqsUpTo(Chunks, MaxPromptLen)
    /\ dResponse \in Responses
    /\ dResult = NoInteraction
    /\ dPrev = NoInteraction
    /\ dAdded = "none"
    /\ dCalls = <<>>
    /\ ResIdle
    /\ GovIdle
    /\ ExtIdle

\* EthosLensGovernance.processInteraction(prompt, response)
DetProcess ==
    /\ ~dResult.done
    /\ dResult' = detRun(dPrompt, dResponse)
    /\ UNCHANGED <<dPrompt, dResponse, dPrev, dAdded, dCalls, resVars, govVars, extVars>>

\* The same call on the prompt with a trigger phrase added.
DetProcessWithPhrase(phrase, mode) ==
    /\ dResult.done
    /\ dAdded = "none"
    /\ dPrompt' = AddToPrompt(dPrompt, phrase, mode)
    /\ dResponse' = AddToResponse(dResponse, phrase, mode)
    /\ dPrev' = dResult
    /\ dResult' = detRun(dPrompt', dResponse')
    /\ dAdded' = mode
    /\ UNCHANGED <<dCalls, resVars, govVars, extVars>>

DetNext ==
    \/ DetProcess
    \/ \E phrase \in TriggerPhrases, mode \in AddModes : DetProcessWithPhrase(phrase, mode)

vars == <<detVars, resVars, govVars, extVars>>

SpecDetect == DetInit /\ [][DetNext]_vars

-----------------------------------------------------------------------------
(* SpecResolve: the three resolvers on every bounded pair of violation      *)
(* lists.                                                                   *)

SevSet == {45, 50, 55, 65, 70, 85, 90, 95}

ViolationLists ==
    { [i \in 1..Len(sevs) |-> Violation("compliance", sevs[i])] :
        sevs \in SeqsUpTo(SevSet, MaxViolations) }

ResInit ==
    /\ rViolations \in ViolationLists
    /\ rOther \in ViolationLists
    /\ rOut = NoInteraction
    /\ DetIdle
    /\ GovIdle
    /\ ExtIdle

ResResolve ==
    /\ ~rOut.done
    /\ rOut' = [ done |-> TRUE,
                 server |-> resolveServer(rViolations),
                 ts |-> determineFinalStatus(rViolations),
                 js |-> finalizeStatusJs(rViolations),
                 serverOther |-> resolveServer(rOther),
                 tsOther |-> determineFinalStatus(rOther),
                 jsOther |-> finalizeStatusJs(rOther) ]
    /\ UNCHANGED <<rViolations, rOther, detVars, govVars, extVars>>

ResNext == ResResolve

SpecResolve == ResInit /\ [][ResNext]_vars

-----------------------------------------------------------------------------
(* InkeepAgentsService: the availability probe and the remote analysis.     *)

\* What one GET of the probe meets: a 2xx answer, a 404, another status, or
\* a network error or timeout (fetch rejects).
ProbeAnswers == {"ok", "404", "500", "error"}

\* InkeepAgentsService.isAvailable (TS): r is the answer of GET /health.
isAvailableTs(enabled, r) ==
    IF ~enabled THEN FALSE
    ELSE IF r = "error" THEN FALSE
    ELSE r = "ok"

\* InkeepAgentsService.isAvailable (JS): rs are the answers of GET /health,
\* /openapi.json and /, tried in this order.
isAvailableJs(enabled, rs) ==
    IF ~enabled THEN FALSE
    ELSE \E i \in 1..Len(rs) : rs[i] # "error" /\ (rs[i] = "ok" \/ rs[i] = "404")

\* The content of a remote answer, as far as the parsers read it: whether it
\* holds "violation" or "blocked", "critical", "high".
Contents == [violation : BOOLEAN, critical : BOOLEAN, high : BOOLEAN]

\* A content that holds none of the words the parsers look for.
NoWords == [violation |-> FALSE, critical |-> FALSE, high |-> FALSE]

\* The JSON payload of a remote answer.  "text": content (or message) is a
\* string; "no_field": neither field is there, the parsers read '';
\* "not_text": the payload is null or its content is not a string, and the
\* parser throws a TypeError (content.toLowerCase, content.slice).
Payloads ==
    {[shape |-> "text", content |-> c] : c \in Contents}
        \cup {[shape |-> sh, content |-> NoWords] : sh \in {"no_field", "not_text"}}

\* The ways the remote analysis call fails: fetch rejects (network error,
\* timeout), the status is not 2xx, response.json() rejects.
RemoteFailures == {"network_error", "timeout", "non_2xx", "bad_json"}

\* An AgentAction: details is the fixed text, about the value put into it.
AgentAction(agentName, action, details, about) ==
    [agentName |-> agentName, action |-> action, details |-> details, about |-> about]

\* InkeepAgentsService.parseGovernanceResponse (TS)
parseGovernanceResponse(content) ==
    LET violations ==
            IF content.violation
            THEN << Violation("compliance",
                              IF content.critical THEN 90
                              ELSE IF content.high THEN 70 ELSE 50) >>
            ELSE <<>>
    IN [ violations |-> violations,
         agentActions |->
            << AgentAction("InkeepGovernanceCoordinator",
                           IF Len(violations) > 0 THEN "flag" ELSE "approve",
                           "content", "") >>,
         status |-> IF Len(violations) > 0
                    THEN (IF SomeAtLeast(violations, 80) THEN "blocked" ELSE "pending")
                    ELSE "approved",
         severity |-> IF Len(violations) > 0
                      THEN (IF SomeAtLeast(violations, 80) THEN "critical"
                            ELSE IF SomeAtLeast(violations, 60) THEN "high"
                            ELSE "medium")
                      ELSE "low" ]

\* InkeepAgentsService.parseAdvancedGovernanceResponse (TS): the basic
\* result, with verification and risk fields the orchestrator does not read.
parseAdvancedGovernanceResponse(content) == parseGovernanceResponse(content)

\* InkeepAgentsService.#parseBasic / #parseAdvanced (JS)
parseBasicJs(content) ==
    LET hasViolation == content.violation
    IN [ violations |->
            IF hasViolation
            THEN << Violation("compliance", IF content.critical THEN 90 ELSE 70) >>
            ELSE <<>>,
         agentActions |->
            << AgentAction("InkeepGovernanceCoordinator",
                           IF hasViolation THEN "flag" ELSE "approve", "content", "") >>,
         status |-> IF hasViolation
                    THEN (IF content.critical THEN "blocked" ELSE "pending")
                    ELSE "approved",
         severity |-> IF content.critical THEN "critical"
                      ELSE IF hasViolation THEN "high" ELSE "low" ]

-----------------------------------------------------------------------------
(* The legacy agents of GovernanceService (TS).  agents.policyEnforcer runs  *)
(* the violation detector on the interaction and pushes what it finds; each  *)
(* agent returns the actions the orchestrator appends.                       *)

policyEnforcerViolations(c) == detectViolations(c.input, c.output)

policyEnforcerActions(found) ==
    << AgentAction("PolicyEnforcerAgent",
                   IF Len(found) > 0 THEN "flag" ELSE "approve",
                   "violations", ToString(Len(found))) >>

laterAgentsActions(violations) ==
    << AgentAction("VerifierAgent", "log", "status", determineFinalStatus(violations)[1]),
       AgentAction("ResponseAgent", "suggest", "response", ""),
       AgentAction("AuditLogger", "log", "audit", ""),
       AgentAction("FeedbackAgent", "log", "feedback", "") >>

\* How a run of the five agents ends: all return, the first one throws, or
\* a later one throws after the policy enforcer has pushed its findings.
LegacyOutcomes == {"ok", "throw_first", "throw_later"}

-----------------------------------------------------------------------------
(* GovernanceService                                                        *)

MaxCalls == 1          \* processInteraction calls started
MaxSwitches == 2       \* switchAgentType calls started

Inputs ==
    { [prompt |-> <<"weather">>, response |-> <<"weather">>],
      [prompt |-> <<"vaccines cause autism">>, response |-> <<"weather">>],
      [prompt |-> <<"hurt someone">>, response |-> <<>>],
      [prompt |-> <<"HOW TO KILL">>, response |-> <<"weather">>],
      [prompt |-> <<"weather">>, response |-> <<"D16">>] }

\* A backend choice that reads the preference and not the availability.
shouldUseInkeepPreferenceOnly(pref, avail) == pref

\* GovernanceService.shouldUseInkeep
shouldUseInkeep(pref, avail) == pref /\ avail

\* The interaction allocated by processInteraction, with what the call has
\* done so far: the configuration it read when it chose the backend, the
\* remote calls it made, the runs of the local path it started.
NewCall(in) ==
    [ pc |-> "new",
      input |-> in.prompt, output |-> in.response,
      status |-> "pending", severity |-> "low",
      violations |-> <<>>, agentActions |-> <<>>,
      path |-> "none",
      prefAtStart |-> useInkeepAgents, availAtStart |-> inkeepAvailable,
      afterSwitch |-> lastSwitch,
      remoteInvoked |-> 0, remoteFailed |-> FALSE,
      localRuns |-> 0, fellBack |-> FALSE,
      payload |-> "none", analysed |-> FALSE, agentThrew |-> FALSE,
      agentResults |-> <<>>, persistFailed |-> FALSE, saved |-> "no",
      reply |-> [sent |-> FALSE] ]

\* A return that leaves the working status and severity as they are.
ReturnUnresolved(c) == [c EXCEPT !.pc = "done"]

\* this.determineFinalStatus(interaction); return interaction  (TS)
ReturnTs(c) ==
    LET st == determineFinalStatus(c.violations)
    IN [c EXCEPT !.pc = "done", !.status = st[1], !.severity = st[2]]

\* "Finalize status"; return interaction  (JS)
ReturnJs(c) ==
    LET st == finalizeStatusJs(c.violations)
    IN [c EXCEPT !.pc = "done", !.status = st[1], !.severity = st[2]]

\* The catch of processInteraction (TS): run the legacy agents if the remote
\* backend is, at this moment, the one to use; otherwise go on to resolve.
CatchTs(c) ==
    IF shouldUseInkeep(useInkeepAgents, inkeepAvailable)
    THEN [c EXCEPT !.pc = "legacy", !.path = "fallback",
                   !.localRuns = @ + 1, !.fellBack = c.remoteFailed]
    ELSE ReturnTs(c)

GovInit ==
    /\ impl \in {"ts", "js"}
    /\ isEnabled \in BOOLEAN
    /\ useInkeepAgents = isEnabled
    /\ inkeepAvailable = FALSE
    /\ probes = {[id |-> 0, origin |-> "constructor"]}
    /\ nProbes = 1
    /\ nSwitches = 0
    /\ lastSwitch = [done |-> FALSE]
    /\ call = [pc |-> "idle"]
    /\ nCalls = 0
    /\ DetIdle
    /\ ResIdle
    /\ ExtIdle

\* checkInkeepAvailability: this.inkeepAvailable = await isAvailable().  A
\* probe started by switchAgentType ends the switch, whose HTTP handler then
\* answers with getStatus().
ProbeReturn(p, rs) ==
    /\ p \in probes
    /\ inkeepAvailable' = IF impl = "js" THEN isAvailableJs(isEnabled, rs)
                          ELSE isAvailableTs(isEnabled, rs[1])
    /\ probes' = probes \ {p}
    /\ lastSwitch' = IF p.origin = "switch"
                     THEN [ done |-> TRUE, usingInkeep |-> useInkeepAgents,
                            inkeepAvailable |-> inkeepAvailable',
                            agentType |-> IF useInkeepAgents /\ inkeepAvailable'
                                          THEN "inkeep" ELSE "legacy" ]
                     ELSE lastSwitch
    /\ UNCHANGED <<impl, isEnabled, useInkeepAgents, nProbes, nSwitches, callVars,
                   detVars, resVars, extVars>>

\* switchAgentType(true): set the preference, then await a fresh probe.
SwitchToInkeep ==
    /\ impl \in {"ts", "js"}
    /\ nSwitches < MaxSwitches
    /\ nSwitches' = nSwitches + 1
    /\ useInkeepAgents' = TRUE
    /\ probes' = probes \cup {[id |-> nProbes, origin |-> "switch"]}
    /\ nProbes' = nProbes + 1
    /\ UNCHANGED <<impl, isEnabled, inkeepAvailable, lastSwitch, callVars,
                   detVars, resVars, extVars>>

\* switchAgentType(false): set the preference; no probe.
SwitchToLegacy ==
    /\ impl \in {"ts", "js"}
    /\ nSwitches < MaxSwitches
    /\ nSwitches' = nSwitches + 1
    /\ useInkeepAgents' = FALSE
    /\ lastSwitch' = [ done |-> TRUE, usingInkeep |-> FALSE,
                       inkeepAvailable |-> inkeepAvailable,
                       agentType |-> "legacy" ]
    /\ UNCHANGED <<impl, isEnabled, inkeepAvailable, probes, nProbes, callVars,
                   detVars, resVars, extVars>>

CanStart == call.pc \in {"idle", "done", "raised"} /\ nCalls < MaxCalls

\* processInteraction (TS) up to its first await: the remote call, or the
\* first legacy agent.
TsStart(in) ==
    /\ impl = "ts"
    /\ CanStart
    /\ nCalls' = nCalls + 1
    /\ call' = IF shouldUseInkeep(useInkeepAgents, inkeepAvailable)
               THEN [NewCall(in) EXCEPT !.pc = "remote", !.path = "remote",
                                        !.remoteInvoked = 1]
               ELSE [NewCall(in) EXCEPT !.pc = "legacy", !.path = "direct",
                                        !.localRuns = 1]
    /\ UNCHANGED <<cfgVars, opVars, detVars, resVars, extVars>>

\* processWithInkeepAgents: the remote analysis answers; parse, merge and
\* resolve.  A throw of the parser is rethrown like a failure of the call.
TsRemoteOk(payload) ==
    /\ impl = "ts"
    /\ call.pc = "remote"
    /\ LET result == parseAdvancedGovernanceResponse(payload.content)
       IN call' =
            IF payload.shape = "not_text"
            THEN CatchTs([call EXCEPT !.remoteFailed = TRUE, !.payload = payload.shape])
            ELSE ReturnTs(
              [call EXCEPT
                 !.payload = payload.shape, !.analysed = TRUE,
                 !.violations = @ \o result.violations,
                 !.agentActions = @ \o result.agentActions \o
                     << AgentAction("InkeepIntegration", "log",
                                    "Processed through Inkeep Advanced Governance",
                                    ToString(Len(result.violations))) >>])
    /\ UNCHANGED <<cfgVars, opVars, nCalls, detVars, resVars, extVars>>

\* The remote analysis fails: processWithInkeepAgents rethrows, the catch of
\* processInteraction takes over.
TsRemoteFail(failure) ==
    /\ impl = "ts"
    /\ call.pc = "remote"
    /\ call' = CatchTs([call EXCEPT !.remoteFailed = TRUE])
    /\ UNCHANGED <<cfgVars, opVars, nCalls, detVars, resVars, extVars>>

\* processWithLegacyAgents ends.  It rethrows what an agent throws: inside
\* the try of processInteraction the catch takes over, inside the catch the
\* error leaves processInteraction.
TsLegacyEnd(outcome) ==
    /\ impl = "ts"
    /\ call.pc = "legacy"
    /\ LET found == policyEnforcerViolations(call)
           pushed == [call EXCEPT !.violations = @ \o found,
                                  !.agentActions = @ \o policyEnforcerActions(found)]
           all == [pushed EXCEPT
                     !.agentActions = @ \o laterAgentsActions(pushed.violations)]
           thrown == [(IF outcome = "throw_first" THEN call ELSE pushed)
                         EXCEPT !.agentThrew = TRUE]
       IN call' = IF outcome = "ok" THEN ReturnTs([all EXCEPT !.analysed = TRUE])
                  ELSE IF call.path = "fallback" THEN [thrown EXCEPT !.pc = "raised"]
                  ELSE CatchTs(thrown)
    /\ UNCHANGED <<cfgVars, opVars, nCalls, detVars, resVars, extVars>>

\* processInteraction (JS) up to its await of the remote call; without the
\* remote backend it logs the legacy fallback and returns at once.
JsStart(in) ==
    /\ impl = "js"
    /\ CanStart
    /\ nCalls' = nCalls + 1
    /\ LET useInkeep == useInkeepAgents /\ inkeepAvailable
       IN call' = IF useInkeep
                  THEN [NewCall(in) EXCEPT !.pc = "remote", !.path = "remote",
                                           !.remoteInvoked = 1]
                  ELSE ReturnJs(
                         [NewCall(in) EXCEPT
                            !.path = "direct", !.localRuns = 1,
                            !.agentActions = @ \o
                               << AgentAction("Legacy", "log", "Legacy fallback used", "") >>])
    /\ UNCHANGED <<cfgVars, opVars, detVars, resVars, extVars>>

\* The remote analysis answers (JS).  A throw of the parser lands in the
\* catch of processInteraction, like a failure of the call.
JsRemoteOk(payload) ==
    /\ impl = "js"
    /\ call.pc = "remote"
    /\ LET result == parseBasicJs(payload.content)
       IN call' =
            IF payload.shape = "not_text"
            THEN ReturnJs([call EXCEPT
                             !.remoteFailed = TRUE, !.payload = payload.shape,
                             !.agentActions = @ \o
                                << AgentAction("GovernanceService", "log",
                                               "Processing error", "bad_json") >>])
            ELSE ReturnJs([call EXCEPT
                             !.payload = payload.shape, !.analysed = TRUE,
                             !.violations = @ \o result.violations,
                             !.agentActions = @ \o result.agentActions])
    /\ UNCHANGED <<cfgVars, opVars, nCalls, detVars, resVars, extVars>>

\* The catch of processInteraction (JS): log the error, then finalize.
JsRemoteFail(failure) ==
    /\ impl = "js"
    /\ call.pc = "remote"
    /\ call' = ReturnJs([call EXCEPT
                           !.remoteFailed = TRUE,
                           !.agentActions = @ \o
                              << AgentAction("GovernanceService", "log",
                                             "Processing error", failure) >>])
    /\ UNCHANGED <<cfgVars, opVars, nCalls, detVars, resVars, extVars>>

ProbeAnswerLists == [1..3 -> ProbeAnswers]

\* The answers a probe of the running service meets.  rs[1] is what the remote
\* service answers on /health at that moment, asked or not (isAvailable of a
\* disabled service returns before asking).  The TS probe asks /health only;
\* the JS probe asks the candidates in turn and stops at the first 2xx or 404.
\* A later endpoint that is not asked is listed as "error".
ProbeRuns ==
    LET asked(rs, i) ==
            \/ i = 1
            \/ /\ isEnabled
               /\ impl = "js"
               /\ \A j \in 1..(i - 1) : rs[j] \notin {"ok", "404"}
    IN {rs \in ProbeAnswerLists : \A i \in 1..3 : ~asked(rs, i) => rs[i] = "error"}

Next ==
    \/ \E p \in probes, rs \in ProbeRuns : ProbeReturn(p, rs)
    \/ SwitchToInkeep
    \/ SwitchToLegacy
    \/ \E in \in Inputs : TsStart(in)
    \/ \E payload \in Payloads : TsRemoteOk(payload)
    \/ \E failure \in RemoteFailures : TsRemoteFail(failure)
    \/ \E outcome \in LegacyOutcomes : TsLegacyEnd(outcome)
    \/ \E in \in Inputs : JsStart(in)
    \/ \E payload \in Payloads : JsRemoteOk(payload)
    \/ \E failure \in RemoteFailures : JsRemoteFail(failure)

Spec == GovInit /\ [][Next]_vars

-----------------------------------------------------------------------------
(* GovernanceServiceSupabase: the orchestrator that persists through the    *)
(* Supabase service layer.  It has the fields and the constructor probe of  *)
(* GovernanceService and no switchAgentType.                                *)

MaxAgents == 2         \* legacy agents run by one call

SeverityNames == {"low", "medium", "high", "critical"}

\* What agent.process(interaction) does in processWithLegacyAgents: return
\* an action of type 'violation' with a severity, return another action, or
\* throw.
AgentOutcomes ==
    {[type |-> "violation", severity |-> sev] : sev \in SeverityNames}
        \cup {[type |-> "approve", severity |-> "low"], [type |-> "throw", severity |-> "low"]}

AgentRuns == SeqsUpTo(AgentOutcomes, MaxAgents)

\* What a call of the Supabase service layer meets: the client answers with
\* data, or with an error (the layer logs it and returns null or []).
WriteOutcomes == {"ok", "error"}

SbInputs ==
    { [prompt |-> <<"weather">>, response |-> <<"weather">>],
      [prompt |-> <<"hurt someone">>, response |-> <<>>] }

\* A row handed to a persistence adapter; resolved tells whether the status
\* of the interaction had been resolved when the row was written.
Row(table, status, resolved) == [table |-> table, status |-> status, resolved |-> resolved]

\* supabaseService.create*: the row is stored unless the client reports an error.
Written(rows, outcome) == IF outcome = "ok" THEN rows ELSE <<>>

\* GovernanceServiceSupabase.getMaxSeverity
getMaxSeverity(severities) ==
    LET has(x) == \E i \in 1..Len(severities) : severities[i] = x
    IN IF has("critical") THEN "critical"
       ELSE IF has("high") THEN "high"
       ELSE IF has("medium") THEN "medium"
       ELSE "low"

\* A resolver that reads the violation pushed last.
resolveSupabaseLastPushed(violations, severity) ==
    IF Len(violations) > 0
    THEN LET last == violations[Len(violations)].severity
         IN << IF last = "critical" THEN "blocked" ELSE "flagged", last >>
    ELSE << "compliant", severity >>

\* processWithLegacyAgents, "Determine final status"
resolveSupabase(violations, severity) ==
    IF Len(violations) > 0
    THEN LET maxSeverity == getMaxSeverity(Severities(violations))
         IN << IF maxSeverity = "critical" THEN "blocked" ELSE "flagged", maxSeverity >>
    ELSE << "compliant", severity >>

\* An audit log whose failure throws inside the agent's try block.
auditFailureThrows(outcome) == outcome = "error"

\* createAuditLog answers an error with null (supabaseService.ts): the agent's
\* turn goes on.
auditFailureAborts(outcome) == FALSE

RECURSIVE runAgents(_, _, _)
\* The body of agents.map(...) for each agent in turn: push the action, log
\* it, push the violation.  A throw ends the agent's turn and is swallowed.
runAgents(c, runs, auditOutcome) ==
    IF runs = <<>> THEN c
    ELSE LET r == Head(runs)
             acted == [c EXCEPT !.agentActions =
                          @ \o << AgentAction("agent", r.type, "processed", r.severity) >>]
             next ==
                IF r.type = "throw" THEN c
                ELSE IF useSupabase /\ auditFailureAborts(auditOutcome) THEN acted
                ELSE IF r.type = "violation"
                     THEN [acted EXCEPT !.violations =
                              @ \o << Violation("unknown", r.severity) >>]
                     ELSE acted
         IN runAgents(next, Tail(runs), auditOutcome)

\* The violations the agents of a run report.
reported(runs) == SelectSeq(runs, LAMBDA r : r.type = "violation")

SbInit ==
    /\ impl = "sb"
    /\ isEnabled \in BOOLEAN
    /\ useInkeepAgents = isEnabled
    /\ inkeepAvailable = FALSE
    /\ probes = {[id |-> 0, origin |-> "constructor"]}
    /\ nProbes = 1
    /\ nSwitches = 0
    /\ lastSwitch = [done |-> FALSE]
    /\ call = [pc |-> "idle"]
    /\ nCalls = 0
    /\ useSupabase \in BOOLEAN
    /\ store = <<>>
    /\ DetIdle /\ ResIdle /\ FbIdle /\ ProbeIdle

\* processInteraction up to the choice of the backend: with Supabase, the
\* interaction row is created with compliance_status 'pending' and the start
\* of the processing is logged.
SbStart(in, rowOutcome, auditOutcome) ==
    /\ impl = "sb"
    /\ CanStart
    /\ nCalls' = nCalls + 1
    /\ call' = [NewCall(in) EXCEPT
                  !.pc = "backend",
                  !.persistFailed = useSupabase /\ "error" \in {rowOutcome, auditOutcome}]
    /\ store' = IF useSupabase
                THEN Written(<< Row("interactions", "pending", FALSE) >>, rowOutcome)
                ELSE <<>>
    /\ UNCHANGED <<cfgVars, opVars, useSupabase, detVars, resVars, fbVars, probe>>

\* The backend runs.  inkeepAgentsService has no runGovernanceCheck: the call
\* in processWithInkeepAgents throws a TypeError before any request is sent,
\* and its catch runs processWithLegacyAgents.  The legacy agents run, their
\* violations are stored one by one, then the status is determined.
SbAnalyse(runs, auditOutcome, violationOutcome) ==
    /\ impl = "sb"
    /\ call.pc = "backend"
    /\ LET useRemote == shouldUseInkeep(useInkeepAgents, inkeepAvailable)
           ran == runAgents(call, runs, auditOutcome)
           st == resolveSupabase(ran.violations, ran.severity)
       IN /\ call' = [ran EXCEPT
                        !.pc = IF useSupabase THEN "finally" ELSE "done",
                        !.prefAtStart = useInkeepAgents, !.availAtStart = inkeepAvailable,
                        !.path = IF useRemote THEN "fallback" ELSE "direct",
                        !.localRuns = 1, !.analysed = TRUE,
                        !.agentResults = runs,
                        !.agentThrew = \E i \in 1..Len(runs) : runs[i].type = "throw",
                        !.persistFailed = @ \/ (useSupabase /\ Len(runs) > 0 /\
                                                "error" \in {auditOutcome, violationOutcome}),
                        !.status = st[1], !.severity = st[2]]
          /\ store' = IF useSupabase
                      THEN store \o Written(
                               [i \in 1..Len(ran.violations) |->
                                   Row("violations", ran.violations[i].severity, FALSE)],
                               violationOutcome)
                      ELSE store
    /\ UNCHANGED <<cfgVars, opVars, nCalls, useSupabase, detVars, resVars, fbVars, probe>>

\* finally: persistInteractionResults writes the row with the final status
\* and logs the completion; then the interaction is returned.
SbPersist(rowOutcome, auditOutcome) ==
    /\ impl = "sb"
    /\ call.pc = "finally"
    /\ call' = [call EXCEPT !.pc = "done", !.saved = rowOutcome,
                            !.persistFailed = @ \/ "error" \in {rowOutcome, auditOutcome}]
    /\ store' = store \o Written(<< Row("interactions", call.status, TRUE) >>, rowOutcome)
    /\ UNCHANGED <<cfgVars, opVars, nCalls, useSupabase, detVars, resVars, fbVars, probe>>

\* What saveToNeo4j meets: no driver, every session.run succeeds, or one
\* rejects (caught and logged).
SaveOutcomes == {"no_driver", "ok", "error"}

\* The text of the block notice: the heading, the number of violations and
\* one line for each violation, made of its type and its description.
blockedContent(violations) ==
    << "Content Blocked by EthosLens Governance", ToString(Len(violations)) >>
        \o [i \in 1..Len(violations) |-> violations[i].type]

\* ethosLens: {status, violations, severity} of the reply
ethosLensOf(c) == [status |-> c.status, violations |-> c.violations, severity |-> c.severity]

\* A reply that carries the response of the model whatever the decision is.
copilotReplyReleases(c) ==
    [sent |-> TRUE, content |-> c.output, ethosLens |-> ethosLensOf(c)]

\* POST /api/copilotkit, step 4: the reply for the governance decision.  The
\* content is a text in chunks; c.output is the response of the model.
copilotReply(c) ==
    [ sent |-> TRUE,
      content |->
          IF c.status = "blocked" THEN blockedContent(c.violations)
          ELSE IF c.status = "pending"
               THEN << "Content Flagged for Review" >> \o c.output \o
                    << "Note: This response has been flagged" >>
               ELSE c.output,
      ethosLens |-> ethosLensOf(c) ]

\* POST /api/copilotkit, steps 3 and 4: the interaction returned by
\* governanceService.processInteraction is saved to Neo4j, then answered.
HttpSave(outcome) ==
    /\ impl = "js"
    /\ call.pc = "done"
    /\ call.saved = "no"
    /\ call' = [call EXCEPT !.saved = outcome, !.persistFailed = outcome = "error",
                            !.reply = copilotReply(call)]
    /\ store' = Written(<< Row("neo4j", call.status, TRUE) >>, outcome)
    /\ UNCHANGED <<cfgVars, opVars, nCalls, useSupabase, detVars, resVars, fbVars, probe>>

SbNext ==
    \/ \E in \in SbInputs, ro \in WriteOutcomes, ao \in WriteOutcomes : SbStart(in, ro, ao)
    \/ \E runs \in AgentRuns, ao \in WriteOutcomes, vo \in WriteOutcomes :
           SbAnalyse(runs, ao, vo)
    \/ \E ro \in WriteOutcomes, ao \in WriteOutcomes : SbPersist(ro, ao)
    \/ \E outcome \in SaveOutcomes : HttpSave(outcome)

\* The three orchestrators: GovernanceService (TS), GovernanceService (JS)
\* behind the HTTP endpoint, GovernanceServiceSupabase.
SpecOrchestrators == (GovInit \/ SbInit) /\ [][Next \/ SbNext]_vars

-----------------------------------------------------------------------------
(* SpecFeedback: feedback on resolved interactions.  LiveMonitor keeps the   *)
(* interactions on display and records a rating in the userFeedback slot;   *)
(* GovernanceService.processFeedback passes a rating to the remote backend. *)

Ratings == {"positive", "negative", "report"}

\* The ratings the feedback buttons of LiveMonitor send.
ButtonRatings == {"positive", "negative", "flag"}

\* Ids: 1 and 2 are on display, 3 is unknown.
KnownIds == {1, 2}
Ids == KnownIds \cup {3}

\* A resolved interaction as LiveMonitor shows it.
Card(id, status) ==
    [ id |-> id, status |-> status,
      severity |-> CASE status = "blocked" -> "critical"
                     [] status = "pending" -> "high"
                     [] OTHER -> "low",
      violations |-> CASE status = "blocked" -> << Violation("harmful_content", SevHarmfulContent) >>
                       [] status = "pending" -> << Violation("misinformation", SevMisinformation) >>
                       [] OTHER -> <<>>,
      userFeedback |-> "none" ]

\* A feedback handler that also releases the interaction on a positive rating.
withFeedbackAndRelease(interaction, rating) ==
    [interaction EXCEPT !.userFeedback = IF rating = "flag" THEN "report" ELSE rating,
                        !.status = IF rating = "positive" THEN "approved" ELSE @]

\* { ...interaction, userFeedback: { rating: rating === 'flag' ? 'report' : rating } }
withFeedback(interaction, rating) ==
    [interaction EXCEPT !.userFeedback = IF rating = "flag" THEN "report" ELSE rating]

\* A catch that passes the error on to the caller.
rethrowFeedback(c) == [c EXCEPT !.pc = "raised"]

\* The catch of processFeedback: console.error, then return.
catchFeedback(c) == [c EXCEPT !.pc = "done", !.failed = TRUE]

FbInit ==
    /\ impl = "ts"
    /\ isEnabled \in BOOLEAN
    /\ useInkeepAgents \in BOOLEAN
    /\ inkeepAvailable \in {FALSE, isEnabled}
    /\ probes = {} /\ nProbes = 0 /\ nSwitches = 0 /\ lastSwitch = [done |-> FALSE]
    /\ call = [pc |-> "idle"] /\ nCalls = 0
    /\ interactions \in {<<Card(1, s1), Card(2, s2)>> :
                            s1 \in {"approved", "pending", "blocked"}, s2 \in {"pending", "blocked"}}
    /\ fb = [pc |-> "idle"]
    /\ DetIdle /\ ResIdle /\ SbIdle /\ ProbeIdle

\* LiveMonitor.handleInteractionAction(id, 'feedback', rating)
HandleFeedback(id, rating) ==
    /\ interactions' = [i \in 1..Len(interactions) |->
                           IF interactions[i].id = id
                           THEN withFeedback(interactions[i], rating)
                           ELSE interactions[i]]
    /\ UNCHANGED <<fb, detVars, resVars, govVars, sbVars, probe>>

\* LiveMonitor.handleInteractionAction(id, 'approve' | 'block'): a reviewer's
\* decision, not a feedback event.
HandleReview(id, action) ==
    /\ interactions' = [i \in 1..Len(interactions) |->
                           IF interactions[i].id = id
                           THEN [interactions[i] EXCEPT
                                    !.status = IF action = "approve" THEN "approved" ELSE "blocked"]
                           ELSE interactions[i]]
    /\ UNCHANGED <<fb, detVars, resVars, govVars, sbVars, probe>>

\* GovernanceService.processFeedback up to its await: with the remote backend
\* it sends the feedback, without it it logs and returns.
FbStart(id, rating) ==
    /\ fb.pc \in {"idle", "done", "raised"}
    /\ fb' = [ pc |-> IF shouldUseInkeep(useInkeepAgents, inkeepAvailable)
                      THEN "remote" ELSE "done",
               id |-> id, rating |-> rating,
               remote |-> shouldUseInkeep(useInkeepAgents, inkeepAvailable),
               failed |-> FALSE, failure |-> "none" ]
    /\ UNCHANGED <<interactions, detVars, resVars, govVars, sbVars, probe>>

\* inkeepAgentsService.processFeedback resolves.
FbRemoteOk ==
    /\ fb.pc = "remote"
    /\ fb' = [fb EXCEPT !.pc = "done"]
    /\ UNCHANGED <<interactions, detVars, resVars, govVars, sbVars, probe>>

\* inkeepAgentsService.processFeedback rethrows a failure of the request.
FbRemoteFail(failure) ==
    /\ fb.pc = "remote"
    /\ fb' = [catchFeedback(fb) EXCEPT !.failure = failure]
    /\ UNCHANGED <<interactions, detVars, resVars, govVars, sbVars, probe>>

FbNext ==
    \/ \E id \in Ids, rating \in ButtonRatings : HandleFeedback(id, rating)
    \/ \E id \in Ids, action \in {"approve", "block"} : HandleReview(id, action)
    \/ \E id \in Ids, rating \in Ratings : FbStart(id, rating)
    \/ FbRemoteOk
    \/ \E failure \in RemoteFailures : FbRemoteFail(failure)

SpecFeedback == FbInit /\ [][FbNext]_vars

-----------------------------------------------------------------------------
(* SpecProbe: InkeepAgentsService.isAvailable, in its TS and its JS form, on *)
(* every combination of answers of the three endpoints.                     *)

ProbeInit ==
    /\ probe \in {[done |-> FALSE, enabled |-> en, answers |-> rs] :
                     en \in BOOLEAN, rs \in ProbeAnswerLists}
    /\ DetIdle /\ ResIdle /\ GovIdle /\ SbIdle /\ FbIdle

\* await inkeepAgentsService.isAvailable()
ProbeRun ==
    /\ ~probe.done
    /\ probe' = [ done |-> TRUE, enabled |-> probe.enabled, answers |-> probe.answers,
                  ts |-> isAvailableTs(probe.enabled, probe.answers[1]),
                  js |-> isAvailableJs(probe.enabled, probe.answers) ]
    /\ UNCHANGED <<detVars, resVars, govVars, sbVars, fbVars>>

ProbeNext == ProbeRun

SpecProbe == ProbeInit /\ [][ProbeNext]_vars

-----------------------------------------------------------------------------
(* SpecRemoteSilent: GovernanceService with a remote analysis service that  *)
(* may accept the request and never answer.  processAdvancedGovernance      *)
(* awaits fetch without a timer or an abort signal, so nothing ends the     *)
(* wait.  Every step that can be taken is taken (weak fairness).            *)

\* The remote analysis service has accepted the request and stays silent.
RemoteStaysSilent ==
    /\ impl \in {"ts", "js"}
    /\ call.pc = "remote"
    /\ call' = [call EXCEPT !.pc = "waiting"]
    /\ UNCHANGED <<cfgVars, opVars, nCalls, detVars, resVars, extVars>>

NextRemoteSilent == Next \/ RemoteStaysSilent

SpecRemoteSilent == GovInit /\ [][NextRemoteSilent]_vars /\ WF_vars(NextRemoteSilent)

-----------------------------------------------------------------------------
(* The claims.                                                              *)

FinishedCall == call.pc \in {"done", "raised"}

\* The resolver the running GovernanceService applies.
OwnResolver(violations) ==
    CASE impl = "ts" -> determineFinalStatus(violations)
      [] impl = "js" -> finalizeStatusJs(violations)
      [] impl = "sb" -> resolveSupabase(violations, "low")

\* C1: when preferRemote and remoteAvailable are both true and the remote
\* analysis call fails, processInteraction returns an Interaction whose
\* violations are exactly those of the local detector for (input, output) and
\* whose status and severity are resolved from them.
C1_RemoteFailureGivesLocalResult ==
    (FinishedCall /\ call.prefAtStart /\ call.availAtStart /\ call.remoteFailed) =>
        /\ call.pc = "done"
        /\ call.violations = detectViolations(call.input, call.output)
        /\ <<call.status, call.severity>> = OwnResolver(call.violations)

\* An informational action that records a fallback.
RecordsFallback(a) ==
    a.action = "log" /\ a.details \in {"fallback to local", "Legacy fallback used"}

\* C2: the returned Interaction holds a log action recording the fallback
\* exactly when the call attempted the remote backend and fell back to the
\* local analysis.
C2_FallbackIsLoggedExactlyWhenItHappened ==
    call.pc = "done" =>
        (call.fellBack <=>
            \E i \in 1..Len(call.agentActions) : RecordsFallback(call.agentActions[i]))

\* C3: processInteraction never raises an error to its caller; every call
\* that ends returns an Interaction carrying a governance decision.
C3_NeverRaises ==
    FinishedCall =>
        call.pc = "done" /\ call.status \in {"approved", "pending", "blocked"}

\* The reference table of the Status Resolver.
ReferenceTable(violations) ==
    IF Len(violations) = 0 THEN <<"approved", "low">>
    ELSE LET m == MathMax(Severities(violations))
         IN IF m >= 80 THEN <<"blocked", "critical">>
            ELSE IF m >= 60 THEN <<"pending", "high">>
            ELSE IF m >= 50 THEN <<"pending", "medium">>
            ELSE <<"approved", "low">>

\* C4: for every violation list the Status Resolver gives what the reference
\* table gives: empty -> (approved, low); max >= 8 -> (blocked, critical);
\* 6 <= max < 8 -> (pending, high); 5 <= max < 6 -> (pending, medium);
\* max < 5 -> (approved, low).
C4_ResolverEqualsReferenceTable ==
    rOut.done =>
        /\ rOut.server = ReferenceTable(rViolations)
        /\ rOut.ts = ReferenceTable(rViolations)

\* The output holds a run of sixteen digits that stands by itself, and
\* nothing else in the input is a trigger.
OnlySixteenDigits(prompt, response) ==
    /\ MatchCreditCard(response)
    /\ \A i \in 1..Len(prompt) : prompt[i] \in {"weather", "sp"}
    /\ \A i \in 1..Len(response) : response[i] \in {"D16", "weather", "sp"}

\* C5: an output with a 16-digit number and no other trigger yields exactly
\* one pii violation of severity 8.5, and the interaction resolves to
\* blocked / critical, under the server's resolver and under the resolvers of
\* GovernanceService.
C5_SixteenDigitsAreBlocked ==
    (dResult.done /\ OnlySixteenDigits(dResult.input, dResult.output)) =>
        /\ dResult.violations = << Violation("pii", SevPii) >>
        /\ <<dResult.status, dResult.severity>> = <<"blocked", "critical">>
        /\ dResult.ts = <<"blocked", "critical">>
        /\ dResult.js = <<"blocked", "critical">>

\* C6: the resolvers' result depends only on the maximum severity: two
\* non-empty lists with the same maximum resolve alike, whatever their
\* length, order and other severities; severities [9.5, 6.5] resolve to
\* (blocked, critical).
C6_OnlyTheMaximumMatters ==
    rOut.done =>
        /\ ( /\ Len(rViolations) > 0 /\ Len(rOther) > 0
             /\ MathMax(Severities(rViolations)) = MathMax(Severities(rOther)) )
           => (rOut.ts = rOut.tsOther /\ rOut.server = rOut.serverOther)
        /\ Severities(rViolations) = <<95, 65>>
           => (rOut.ts = <<"blocked", "critical">> /\ rOut.server = <<"blocked", "critical">>)

\* [9.5, 6.5] against the single severity [9.5]: the same maximum, another
\* length, and both resolve to (blocked, critical).
C6_Witness ==
    /\ rOut.done
    /\ Severities(rViolations) = <<95, 65>>
    /\ Severities(rOther) = <<95>>
    /\ rOut.ts = rOut.tsOther
    /\ rOut.server = <<"blocked", "critical">>

BucketRank(severity) ==
    CASE severity = "low" -> 0
      [] severity = "medium" -> 1
      [] severity = "high" -> 2
      [] severity = "critical" -> 3

\* C7 as stated: however a trigger phrase is added to an input, the bucket
\* resolved with the phrase is at least the bucket resolved without it.
C7_AddingATriggerNeverLowers ==
    dAdded # "none" => BucketRank(dResult.severity) >= BucketRank(dPrev.severity)

\* C7 as amended: a trigger phrase put before the prompt or after the
\* response, and set apart from the text by a space, never lowers the bucket.
C7_AddingASeparatedTriggerAtAnEndNeverLowers ==
    dAdded \in {"prepend_spaced", "after_response_spaced"} =>
        BucketRank(dResult.severity) >= BucketRank(dPrev.severity)

\* A bias phrase is put, set apart, before a prompt that starts with a
\* 16-digit number: the pii violation stays and so does the bucket.
C7_Witness ==
    /\ dAdded = "prepend_spaced"
    /\ dPrompt = <<"all men", "sp", "D16">>
    /\ dPrev.severity = "critical"
    /\ dResult.severity = "critical"
    /\ Len(dResult.violations) = Len(dPrev.violations) + 1

\* A trigger of the category matches the text.
TriggerMatches(type, text) ==
    CASE type = "illegal_activity" ->
            \E k \in 1..Len(hackingPatterns) : Includes(text, hackingPatterns[k])
      [] type = "data_theft" ->
            \E k \in 1..Len(dataTheftPatterns) : Includes(text, dataTheftPatterns[k])
      [] type = "pii" -> MatchSSN(text) \/ MatchCreditCard(text) \/ MatchEmail(text)
      [] type = "harmful_content" ->
            \E k \in 1..Len(harmfulPatterns) : Includes(text, harmfulPatterns[k])
      [] type = "bias" ->
            \E k \in 1..Len(biasPatterns) : Includes(text, biasPatterns[k])
      [] type = "misinformation" ->
            \E k \in 1..Len(misinformationPatterns) :
                Includes(text, misinformationPatterns[k])
      [] OTHER -> FALSE

Categories ==
    {"illegal_activity", "data_theft", "pii", "harmful_content", "bias", "misinformation"}

\* C8: the detector returns at most one violation per category, a violation
\* of a category only if one of its triggers matches the lower-cased
\* "prompt response", and the empty list when no trigger matches.
C8_AtMostOnePerCategoryAndOnlyOnMatch ==
    dResult.done =>
        LET vs == dResult.violations
            text == toLowerCase(dResult.input \o <<Sp>> \o dResult.output)
        IN /\ \A i, j \in 1..Len(vs) : vs[i].type = vs[j].type => i = j
           /\ \A i \in 1..Len(vs) : TriggerMatches(vs[i].type, text)
           /\ (\A type \in Categories : ~TriggerMatches(type, text)) => vs = <<>>

\* Two hacking triggers match and one illegal_activity violation is returned.
C8_Witness ==
    /\ dResult.done
    /\ Includes(dResult.input, "hack into")
    /\ Includes(dResult.input, "phishing")
    /\ Len(dResult.violations) = 1
    /\ dResult.violations[1].type = "illegal_activity"

\* What the integration test expects for a prompt.
ExpectedStatus(prompt) ==
    LET text == toLowerCase(prompt)
    IN IF TriggerMatches("harmful_content", text) THEN "blocked"
       ELSE IF TriggerMatches("misinformation", text) THEN "pending"
       ELSE "approved"

\* C9: on the HTTP path, after /api/governance/switch chose either agent
\* type, a prompt without trigger resolves to approved, one with a
\* misinformation trigger to pending, one with a harmful-content trigger to
\* blocked.
C9_HttpPathResolvesTestPrompts ==
    ( /\ impl = "js" /\ call.pc = "done" /\ call.afterSwitch.done
      /\ \A type \in Categories : ~TriggerMatches(type, toLowerCase(call.output)) )
    => call.status = ExpectedStatus(call.input)

\* C10: a processInteraction call invokes the remote analysis (once) if and
\* only if preferRemote and remoteAvailable were both true when it chose the
\* backend; otherwise it makes no remote call and runs the local path.
C10_RemoteInvokedIffPreferredAndAvailable ==
    call.pc # "idle" =>
        LET useRemote == call.prefAtStart /\ call.availAtStart
        IN /\ call.remoteInvoked = (IF useRemote THEN 1 ELSE 0)
           /\ ~useRemote => call.localRuns >= 1

\* A call that preferred the remote backend, found it available, invoked it
\* once and returned.
C10_Witness ==
    /\ call.pc = "done"
    /\ call.prefAtStart /\ call.availAtStart
    /\ call.remoteInvoked = 1
    /\ call.localRuns = 0


\* C11: on every path (remote success, remote failure followed by the local
\* agents, local only) and in each orchestrator, the status and severity of
\* the Interaction that processInteraction returns are what the
\* orchestrator's resolver yields for the final violation list; the working
\* default (pending, low) does not survive.
C11_ReturnedStatusIsResolved ==
    call.pc = "done" =>
        <<call.status, call.severity>> = OwnResolver(call.violations)

\* The remote backend answered with a critical violation and the call
\* returned blocked / critical.
C11_Witness ==
    /\ call.pc = "done"
    /\ call.path = "remote" /\ ~call.remoteFailed
    /\ Len(call.violations) = 1
    /\ call.status = "blocked"

\* The statuses of a governance decision.
Decisions == {"approved", "pending", "blocked"}

\* C12: every status that leaves an orchestrator, in the Interaction it
\* returns or in a row it hands to a persistence adapter, is one of
\* approved, pending, blocked.
C12_OnlyDecisionsLeave ==
    /\ call.pc = "done" => call.status \in Decisions
    /\ \A i \in 1..Len(store) :
          store[i].table \in {"interactions", "neo4j"} => store[i].status \in Decisions

\* C13: a persistence adapter receives nothing about an interaction before
\* the status of the interaction has been resolved.
C13_NothingPersistedBeforeResolution ==
    \A i \in 1..Len(store) : store[i].resolved

\* The violations the legacy agents of GovernanceServiceSupabase report when
\* every write succeeds.
ReportedViolations(runs) ==
    LET vs == reported(runs)
    IN [i \in 1..Len(vs) |-> Violation("unknown", vs[i].severity)]

\* C14: when a write to a persistence adapter has failed during a call (the
\* interaction row, a violation, an audit entry, the Neo4j save), the call
\* does not raise, and the Interaction it returns has the violations the
\* analysis found and the status and severity resolved from them.
C14_PersistenceFailureChangesNothing ==
    (call.pc # "idle" /\ call.persistFailed) =>
        /\ call.pc # "raised"
        /\ call.pc = "done" =>
              /\ <<call.status, call.severity>> = OwnResolver(call.violations)
              /\ impl = "sb" => call.violations = ReportedViolations(call.agentResults)

\* With Supabase on, a write failed, an agent reported a critical violation
\* and the call returned blocked.
C14_Witness ==
    /\ impl = "sb" /\ useSupabase
    /\ call.pc = "done"
    /\ call.persistFailed
    /\ call.saved = "error"
    /\ Len(call.violations) > 0
    /\ call.status = "blocked"

\* An interaction apart from its userFeedback slot.
Resolved(interaction) ==
    [id |-> interaction.id, status |-> interaction.status,
     severity |-> interaction.severity, violations |-> interaction.violations]

\* C15: a feedback event, whatever the id and the rating, leaves the status,
\* severity and violations of every interaction as they were; only the
\* userFeedback slot of the interaction with that id may differ, and
\* processFeedback touches no interaction at all.
C15_FeedbackKeepsTheDecision ==
    [][ /\ \A id \in Ids, rating \in ButtonRatings :
              HandleFeedback(id, rating) =>
                 /\ Len(interactions') = Len(interactions)
                 /\ \A i \in 1..Len(interactions) :
                       /\ Resolved(interactions'[i]) = Resolved(interactions[i])
                       /\ interactions[i].id # id => interactions'[i] = interactions[i]
        /\ fb' # fb => interactions' = interactions ]_vars

\* A blocked interaction that holds a positive rating.
C15_Witness ==
    \E i \in 1..Len(interactions) :
        interactions[i].status = "blocked" /\ interactions[i].userFeedback = "positive"

C17_ConfigChangeInFlightKeepsResultSound ==
    [][ ( /\ call.pc \in {"remote", "legacy"}
          /\ call'.pc = "done"
          /\ <<useInkeepAgents, inkeepAvailable>> # <<call.prefAtStart, call.availAtStart>>
          /\ ~call'.agentThrew )
        => ( /\ call'.analysed
             /\ <<call'.status, call'.severity>> = OwnResolver(call'.violations) ) ]_vars

\* C18: the availability probe answers true only when the service is enabled
\* and the liveness endpoint (/health) answers with a success status; a
\* network error, a timeout or another status, 404 included, gives false.
C18_ProbeFailsClosed ==
    probe.done =>
        LET live == probe.enabled /\ probe.answers[1] = "ok"
        IN probe.ts = live /\ probe.js = live

\* C19: a remote answer whose payload cannot be mapped (no content or
\* message field, or a content that is no text) is treated like an
\* unavailable remote: the call falls back to the local analysis and returns
\* the violations of the local detector.
C19_UnmappablePayloadFallsBack ==
    ( /\ call.pc = "done"
      /\ call.payload \in {"no_field", "not_text"}
      /\ ~call.agentThrew )
    => ( /\ call.localRuns >= 1
         /\ call.violations = detectViolations(call.input, call.output) )

\* C20: every processInteraction call that has sent the request to the
\* remote analysis service eventually returns, also when the service never
\* answers.
C20_EveryCallReturns ==
    (call.pc = "remote") ~> (call.pc \in {"done", "raised"})

-----------------------------------------------------------------------------
(* Switching the backend at run time                                        *)

\* A step that completes a switchAgentType call: the HTTP handler goes on to
\* getStatus().
SwitchCompletes == lastSwitch' # lastSwitch /\ lastSwitch'.done

\* A step in which a probe started by switchAgentType stores its result.
SwitchProbeStores == \E p \in probes : p.origin = "switch" /\ p \notin probes'

\* C21: every switchAgentType call, with true and with false, completes on
\* the step in which a probe it started stores its result in inkeepAvailable,
\* so that getStatus after the switch shows a freshly probed availability.
C21_SwitchCompletesWithAFreshProbe == [][SwitchCompletes => SwitchProbeStores]_vars

\* A probe started by switchAgentType(true) stores its result while the
\* remote service answers 2xx on /health and the preference is still true.
SwitchProbeStoresWhileReachable ==
    /\ useInkeepAgents
    /\ \E p \in probes, rs \in ProbeRuns :
          p.origin = "switch" /\ rs[1] = "ok" /\ ProbeReturn(p, rs)

\* C22: for every startup configuration, a switch with useInkeep = true that
\* completes while the remote service is reachable makes getStatus report
\* agentType 'inkeep' with the remote backend available to the next calls.
C22_SwitchToInkeepWhileReachableSelectsInkeep ==
    [][SwitchProbeStoresWhileReachable =>
          (lastSwitch'.agentType = "inkeep" /\ inkeepAvailable')]_vars

-----------------------------------------------------------------------------
(* Persistence of one request                                               *)

\* The interaction records stored for the latest request.
InteractionRows == SelectSeq(store, LAMBDA r : r.table \in {"interactions", "neo4j"})

\* C23: one processInteraction call creates at most one stored interaction
\* record for its request, whatever steps the call takes.
C23_AtMostOneInteractionRecord == Len(InteractionRows) <= 1

-----------------------------------------------------------------------------
(* The action log of the local path                                         *)

\* The returned interaction holds an action of the named agent about `about`.
Logged(agentName, about) ==
    \E i \in 1..Len(call.agentActions) :
        /\ call.agentActions[i].agentName = agentName
        /\ call.agentActions[i].about = about

\* C24: a call that ran the local path, directly or after a fallback, returns
\* an action log with a policy-enforcer action giving the violation count and
\* a verifier action giving the resolved status.
C24_LocalPathLogsEnforcerAndVerifier ==
    (call.pc = "done" /\ call.localRuns >= 1 /\ impl \in {"ts", "js"}) =>
        /\ Logged("PolicyEnforcerAgent", ToString(Len(call.violations)))
        /\ Logged("VerifierAgent", call.status)

-----------------------------------------------------------------------------
(* The severities of the local detector                                     *)

\* The severity the specification fixes for each category, in tenths.
CategorySeverity(type) ==
    CASE type = "illegal_activity" -> 95
      [] type = "data_theft" -> 90
      [] type = "harmful_content" -> 90
      [] type = "pii" -> 85
      [] type = "bias" -> 65
      [] type = "misinformation" -> 70
      [] OTHER -> 0

-----------------------------------------------------------------------------
(* SpecDetectCalls: calls of the local detector, one after the other in any *)
(* order of inputs.  detectViolations holds no await: a call runs from its  *)
(* start to its return without another call in between.                     *)

MaxDetCalls == 3       \* calls of detectViolations made

DetCallsInit ==
    /\ DetIdle
    /\ ResIdle
    /\ GovIdle
    /\ ExtIdle

\* EthosLensGovernance.detectViolations(prompt, response)
DetCall(in) ==
    /\ Len(dCalls) < MaxDetCalls
    /\ dCalls' = Append(dCalls, [ input |-> in.prompt, output |-> in.response,
                                  violations |-> detectViolations(in.prompt, in.response) ])
    /\ UNCHANGED <<dPrompt, dResponse, dResult, dPrev, dAdded, resVars, govVars, extVars>>

DetCallsNext == \E in \in Inputs : DetCall(in)

SpecDetectCalls == DetCallsInit /\ [][DetCallsNext]_vars

\* C26: two calls of the local detector with the same (input, output) return
\* the same violations, in the same order, whatever calls were made before
\* and between them.
C26_SameInputSameViolations ==
    \A i, j \in 1..Len(dCalls) :
        (dCalls[i].input = dCalls[j].input /\ dCalls[i].output = dCalls[j].output)
            => dCalls[i].violations = dCalls[j].violations

\* The same text was analysed twice, with a call on another text between the
\* two, and violations were found in both texts.
C26_Witness ==
    /\ Len(dCalls) = 3
    /\ dCalls[1].input = dCalls[3].input /\ dCalls[1].output = dCalls[3].output
    /\ dCalls[2].input # dCalls[1].input
    /\ dCalls[1].violations # <<>>
    /\ dCalls[2].violations # <<>>
    /\ dCalls[2].violations # dCalls[1].violations

-----------------------------------------------------------------------------
(* Approval                                                                 *)

\* C27: processInteraction returns the status approved only if a backend (the
\* remote analysis or the local agents) completed its analysis of the input
\* and no violation of severity 5 or more was reported; a call whose analysis
\* did not run, or failed, is not approved.
C27_ApprovedOnlyAfterACompletedAnalysis ==
    (impl \in {"ts", "js"} /\ call.pc = "done" /\ call.status = "approved") =>
        /\ call.analysed
        /\ ~SomeAtLeast(call.violations, 50)

-----------------------------------------------------------------------------
(* The reply of POST /api/copilotkit                                        *)

\* The text holds the part as a run of consecutive chunks.
Contains(text, part) ==
    \E i \in 0..(Len(text) - Len(part)) : SubSeq(text, i + 1, i + Len(part)) = part

\* The endpoint has answered the request of the call.
Replied == impl = "js" /\ call.pc = "done" /\ call.reply.sent

\* C28: the reply to a blocked interaction is the block notice listing the
\* violations and does not contain the response of the model; ethosLens
\* carries the status and the violations of the interaction; the response is
\* released unmodified only when the status is approved.
C28_BlockedReplyWithholdsTheResponse ==
    Replied =>
        /\ call.status = "blocked" =>
              /\ call.reply.content = blockedContent(call.violations)
              /\ call.output # <<>> => ~Contains(call.reply.content, call.output)
        /\ call.reply.ethosLens.status = call.status
        /\ call.reply.ethosLens.violations = call.violations
        /\ (call.output # <<>> /\ call.reply.content = call.output) => call.status = "approved"

\* A blocked interaction with a response of the model was answered.
C28_Witness ==
    /\ Replied
    /\ call.status = "blocked"
    /\ call.output # <<>>
    /\ Len(call.violations) > 0

-----------------------------------------------------------------------------
(* Overlapping probes                                                       *)

\* Probe k has been started and has stored its result.
ProbeStored(k) == k < nProbes /\ ~\E q \in probes : q.id = k

\* The probe p stores its result in this step, after a probe started later
\* than p has stored its own.
OlderProbeStoresLate(p) ==
    /\ p \in probes /\ p \notin probes'
    /\ \E k \in (p.id + 1)..(nProbes - 1) : ProbeStored(k)

\* C29: inkeepAvailable holds the result of the most recently started probe:
\* a probe that completes after a probe started later has completed does not
\* overwrite the result of the later one.
C29_OlderProbeNeverOverwritesNewer ==
    [][\A p \in probes : OlderProbeStoresLate(p) => inkeepAvailable' = inkeepAvailable]_vars

-----------------------------------------------------------------------------
(* SpecAgents: processWithLegacyAgents of GovernanceServiceSupabase, one     *)
(* step per resumption.  agents.map starts every agent at once on the one    *)
(* interaction; each agent goes on when its awaits settle, in any order, and *)
(* Promise.all waits for all of them before the status is determined.        *)

AgentIds == 1..Len(call.agentResults)

AgentsInit ==
    /\ impl = "sb"
    /\ isEnabled = FALSE /\ useInkeepAgents = FALSE /\ inkeepAvailable = FALSE
    /\ probes = {} /\ nProbes = 0 /\ nSwitches = 0 /\ lastSwitch = [done |-> FALSE]
    /\ nCalls = 1
    /\ useSupabase \in BOOLEAN
    /\ store = <<>>
    /\ \E in \in SbInputs, runs \in AgentRuns :
          call = [NewCall(in) EXCEPT !.pc = "agents", !.path = "direct", !.localRuns = 1,
                                     !.agentResults = runs]
                    @@ [agentPc |-> [i \in 1..Len(runs) |-> "running"]]
    /\ DetIdle /\ ResIdle /\ FbIdle /\ ProbeIdle

\* await agent.process(interaction) settles for agent i: a throw is caught
\* and the agent is over; otherwise the action is pushed.  Without Supabase
\* the violation follows in the same turn.
AgentReturns(i) ==
    /\ impl = "sb" /\ call.pc = "agents"
    /\ i \in AgentIds
    /\ call.agentPc[i] = "running"
    /\ LET r == call.agentResults[i]
           acted == [call EXCEPT !.agentActions =
                        @ \o << AgentAction("agent", r.type, "processed", r.severity) >>]
       IN call' =
            IF r.type = "throw"
            THEN [call EXCEPT !.agentPc[i] = "threw", !.agentThrew = TRUE]
            ELSE IF useSupabase THEN [acted EXCEPT !.agentPc[i] = "logging"]
            ELSE [acted EXCEPT
                    !.agentPc[i] = "done",
                    !.violations = IF r.type = "violation"
                                   THEN @ \o << Violation("unknown", r.severity) >>
                                   ELSE @]
    /\ UNCHANGED <<cfgVars, opVars, nCalls, sbVars, detVars, resVars, fbVars, probe>>

\* With Supabase: getAgents and createAuditLog have settled for agent i; the
\* violation is pushed (and stored, which does not throw).
AgentLogged(i, auditOutcome) ==
    /\ impl = "sb" /\ call.pc = "agents"
    /\ i \in AgentIds
    /\ call.agentPc[i] = "logging"
    /\ LET r == call.agentResults[i]
       IN call' = [call EXCEPT
                     !.agentPc[i] = "done",
                     !.persistFailed = @ \/ auditOutcome = "error",
                     !.violations = IF r.type = "violation" /\ ~auditFailureAborts(auditOutcome)
                                    THEN @ \o << Violation("unknown", r.severity) >>
                                    ELSE @]
    /\ UNCHANGED <<cfgVars, opVars, nCalls, sbVars, detVars, resVars, fbVars, probe>>

\* await Promise.all(agentPromises) settles; "Determine final status".
AgentsResolve ==
    /\ impl = "sb" /\ call.pc = "agents"
    /\ \A i \in AgentIds : call.agentPc[i] \in {"done", "threw"}
    /\ LET st == resolveSupabase(call.violations, call.severity)
       IN call' = [call EXCEPT !.pc = "done", !.analysed = TRUE,
                               !.status = st[1], !.severity = st[2]]
    /\ UNCHANGED <<cfgVars, opVars, nCalls, sbVars, detVars, resVars, fbVars, probe>>

AgentsNext ==
    \/ \E i \in 1..MaxAgents : AgentReturns(i)
    \/ \E i \in 1..MaxAgents, ao \in WriteOutcomes : AgentLogged(i, ao)
    \/ AgentsResolve

SpecAgents == AgentsInit /\ [][AgentsNext]_vars

\* How grave a severity name is.
SeverityRank(sev) ==
    CASE sev = "critical" -> 4 [] sev = "high" -> 3 [] sev = "medium" -> 2 [] OTHER -> 1

\* The severities of the violations the agents that completed produced.
CompletedSeverities ==
    {call.agentResults[i].severity :
        i \in {k \in AgentIds : call.agentResults[k].type = "violation"}}

\* How many of the agents produced a violation of this severity.
ProducedCount(sev) ==
    Cardinality({i \in AgentIds : call.agentResults[i] = [type |-> "violation", severity |-> sev]})

\* C30: in the Supabase-backed local path, whatever the order in which the
\* agents complete and whichever agents throw, the returned status and
\* severity are determined by the set of violations of the agents that
\* completed, and every action and violation of an agent that completed is
\* recorded.
C30_ConcurrentAgentsResolveBySet ==
    (impl = "sb" /\ call.pc = "done") =>
        /\ call.status = (IF CompletedSeverities = {} THEN "compliant"
                          ELSE IF "critical" \in CompletedSeverities THEN "blocked"
                          ELSE "flagged")
        /\ IF CompletedSeverities = {} THEN call.severity = "low"
           ELSE /\ call.severity \in CompletedSeverities
                /\ \A sev \in CompletedSeverities : SeverityRank(sev) <= SeverityRank(call.severity)
        /\ Len(call.agentActions) =
              Cardinality({i \in AgentIds : call.agentResults[i].type # "throw"})
        /\ \A sev \in SeverityNames :
              Cardinality({j \in 1..Len(call.violations) : call.violations[j].severity = sev})
                  = ProducedCount(sev)

\* Two agents completed in the reverse of their order in the array: the
\* critical violation of the first was pushed after the violation of the
\* second, and the call returned.
C30_Witness ==
    /\ impl = "sb" /\ call.pc = "done"
    /\ Len(call.agentResults) = 2
    /\ call.agentResults[1] = [type |-> "violation", severity |-> "critical"]
    /\ call.agentResults[2] = [type |-> "violation", severity |-> "medium"]
    /\ Severities(call.violations) = << "medium", "critical" >>
    /\ call.agentActions[1].about = "critical"

=============================================================================
